---- MODULE Spec2Model ----
(***************************************************************************)
(* Model of the bilingual-EPUB translator (src/src/translation-service.ts) *)
(* and of the read-aloud playback scheduler (src/unnamed/part_000).        *)
(*                                                                         *)
(* Server side: translateEPUB -> translateFile -> translateChunk ->        *)
(* translateText, strictly sequential.  A chapter file is a sequence of    *)
(* lines; a line carries its length, whether it holds the <head> element   *)
(* and the <p> elements that lie on it.  Texts are tokens: the original    *)
(* text of paragraph k is Orig(k), its translation Tr(Orig(k)).            *)
(***************************************************************************)
EXTENDS Integers, Sequences, FiniteSets, TLC

(* ------------------------------------------------------------------ *)
(* Program constants                                                   *)
(* ------------------------------------------------------------------ *)
Limit == 4700
DebugLineCap == 2222
MaxPairs == 1000

(* ------------------------------------------------------------------ *)
(* Bounds of the model                                                 *)
(* ------------------------------------------------------------------ *)
MaxLines == 3
MaxFiles == 3
MaxRuns == 2
MaxChunks == 5
BigLines == 2351

(* ------------------------------------------------------------------ *)
(* Texts and markup                                                    *)
(* ------------------------------------------------------------------ *)
EmptyText == [ids |-> <<>>, tr |-> FALSE]
Orig(k) == [ids |-> <<k>>, tr |-> FALSE]
Tr(t) == IF t.ids = <<>> THEN t ELSE [ids |-> t.ids, tr |-> TRUE]
Stray == [ids |-> <<0>>, tr |-> TRUE]

Para(cls, text) == [cls |-> cls, text |-> text]
Line(len, head, paras) == [kind |-> "line", len |-> len, head |-> head, paras |-> paras]

(* Elements of the text translateChunk returns and translateFile writes. *)
HeaderElem == [kind |-> "header"]
TranslatedElem(t) == [kind |-> "p", cls |-> "translated", text |-> t]
ItalicElem(t) == [kind |-> "p", cls |-> "italic", text |-> t]
CloseElem == [kind |-> "close"]

(* Concatenation of a sequence of sequences (by halves, so that long    *)
(* chunks do not need deep recursion).                                  *)
RECURSIVE FlattenRange(_, _, _)
FlattenRange(ss, lo, hi) ==
  IF lo > hi THEN <<>>
  ELSE IF lo = hi THEN ss[lo]
  ELSE LET mid == (lo + hi) \div 2
       IN  FlattenRange(ss, lo, mid) \o FlattenRange(ss, mid + 1, hi)
Flatten(ss) == FlattenRange(ss, 1, Len(ss))

(* content.includes('<p class="translated">') *)
HasMarker(content) ==
  \E k \in 1..Len(content) :
    \/ content[k].kind = "p" /\ content[k].cls = "translated"
    \/ content[k].kind = "line" /\ \E j \in 1..Len(content[k].paras) : content[k].paras[j].cls = "translated"

(* ------------------------------------------------------------------ *)
(* translateChunk, as operators                                        *)
(* ------------------------------------------------------------------ *)

(* $('p').map((_, el) => $(el).text().trim()).get() *)
Paragraphs(chunk) ==
  Flatten([k \in 1..Len(chunk) |->
            [j \in 1..Len(chunk[k].paras) |-> chunk[k].paras[j].text]])

(* $('head').html() || '' : is there a header in the chunk *)
HasHeader(chunk) == \E k \in 1..Len(chunk) : chunk[k].head

(* paragraphs.join('\n\n'): the joined string, kept as the sequence of   *)
(* its blank-line separated parts; the empty string is <<>>.            *)
JoinParagraphs(paragraphs) == IF paragraphs = <<EmptyText>> THEN <<>> ELSE paragraphs

(* Variant: a split that yields no part for the empty string.          *)
SplitPartsNoEmpty(s) == s

(* s.split('\n\n'): splitting the empty string yields one empty part.   *)
SplitParts(s) == IF s = <<>> THEN <<EmptyText>> ELSE s

(* Variant: the original line is written before the translated one.    *)
RECURSIVE MergeLinesSwapped(_, _, _)
MergeLinesSwapped(originalLines, translatedLines, originalIndex) ==
  IF originalIndex < MaxPairs
     /\ (originalIndex < Len(originalLines) \/ originalIndex < Len(translatedLines))
  THEN LET originalLine == IF originalIndex < Len(originalLines)
                           THEN originalLines[originalIndex + 1] ELSE EmptyText
           translatedLine == IF originalIndex < Len(translatedLines)
                             THEN translatedLines[originalIndex + 1] ELSE EmptyText
       IN  <<ItalicElem(originalLine), TranslatedElem(translatedLine)>>
             \o MergeLinesSwapped(originalLines, translatedLines, originalIndex + 1)
  ELSE <<>>

(* Variant: the loop ends with the shorter of the two lists.           *)
RECURSIVE MergeLinesCommon(_, _, _)
MergeLinesCommon(originalLines, translatedLines, originalIndex) ==
  IF originalIndex < MaxPairs
     /\ (originalIndex < Len(originalLines) /\ originalIndex < Len(translatedLines))
  THEN <<TranslatedElem(translatedLines[originalIndex + 1]),
         ItalicElem(originalLines[originalIndex + 1])>>
         \o MergeLinesCommon(originalLines, translatedLines, originalIndex + 1)
  ELSE <<>>

(* The while loop that intersperses translated and original lines.      *)
RECURSIVE MergeLines(_, _, _)
MergeLines(originalLines, translatedLines, originalIndex) ==
  IF originalIndex < MaxPairs
     /\ (originalIndex < Len(originalLines) \/ originalIndex < Len(translatedLines))
  THEN LET originalLine == IF originalIndex < Len(originalLines)
                           THEN originalLines[originalIndex + 1] ELSE EmptyText
           translatedLine == IF originalIndex < Len(translatedLines)
                             THEN translatedLines[originalIndex + 1] ELSE EmptyText
       IN  <<TranslatedElem(translatedLine), ItalicElem(originalLine)>>
             \o MergeLines(originalLines, translatedLines, originalIndex + 1)
  ELSE <<>>

(* The text translateChunk returns, given the translation it obtained. *)
ChunkResult(chunk, translatedChunk) ==
  LET originalLines == SplitParts(JoinParagraphs(Paragraphs(chunk)))
      translatedLines == SplitParts(translatedChunk)
  IN  (IF HasHeader(chunk) THEN <<HeaderElem>> ELSE <<>>)
        \o MergeLines(originalLines, translatedLines, 0)

(* Variant: only a chunk without any part skips the translation.       *)
SkipsTranslationNever(chunk) == Len(SplitParts(JoinParagraphs(Paragraphs(chunk)))) < 1

(* Variant: only a chunk without any paragraph skips the translation.  *)
SkipsWithoutParagraph(chunk) == Len(Paragraphs(chunk)) = 0

(* originalLines.length <= 1: translation is skipped *)
SkipsTranslation(chunk) == Len(SplitParts(JoinParagraphs(Paragraphs(chunk)))) <= 1

(* ------------------------------------------------------------------ *)
(* The translation provider (external): what a request may come back   *)
(* with.  It may translate part by part, lose a blank line between     *)
(* two parts, or introduce one.                                        *)
(* ------------------------------------------------------------------ *)
Faithful(text) == [k \in 1..Len(text) |-> Tr(text[k])]
Merged(text) ==
  <<[ids |-> text[1].ids \o text[2].ids, tr |-> TRUE]>>
    \o [k \in 1..(Len(text) - 2) |-> Tr(text[k + 2])]
Extra(text) == <<Tr(text[1]), Stray>> \o [k \in 1..(Len(text) - 1) |-> Tr(text[k + 1])]
ProviderAnswers(text) ==
  {Faithful(text)} \cup (IF Len(text) >= 1 THEN {Extra(text)} ELSE {})
                   \cup (IF Len(text) >= 2 THEN {Merged(text)} ELSE {})

(* ------------------------------------------------------------------ *)
(* Inputs                                                              *)
(* ------------------------------------------------------------------ *)
Shape(len, head, np) == [len |-> len, head |-> head, np |-> np]
LineShapes ==
  { Shape(0, FALSE, 0), Shape(120, TRUE, 0), Shape(2000, FALSE, 1), Shape(2000, FALSE, 2),
    Shape(2698, FALSE, 1), Shape(2699, FALSE, 1), Shape(4699, FALSE, 1), Shape(4700, FALSE, 1) }

RECURSIVE ParasBefore(_, _)
ParasBefore(shapes, k) == IF k <= 1 THEN 0 ELSE ParasBefore(shapes, k - 1) + shapes[k - 1].np

(* A chapter file of the given line shapes; its paragraphs are numbered *)
(* 1, 2, ... in document order.                                         *)
MkFile(shapes) ==
  [k \in 1..Len(shapes) |->
     Line(shapes[k].len, shapes[k].head,
          [j \in 1..shapes[k].np |-> Para("calibre", Orig(ParasBefore(shapes, k) + j))])]

SeqsUpTo(S, n) == UNION {[1..m -> S] : m \in 1..n}

SmallFiles == {MkFile(s) : s \in SeqsUpTo(LineShapes, MaxLines)}
BigFile == [k \in 1..BigLines |-> Line(1, FALSE, <<>>)]
MarkedFile == <<HeaderElem, TranslatedElem(Tr(Orig(1))), ItalicElem(Orig(1)), CloseElem>>
ChapterFiles == SmallFiles \cup {BigFile, MarkedFile}

(* ''.split('\n') is ['']: the empty file is one empty line *)
EmptyFile == MkFile(<<Shape(0, FALSE, 0)>>)

TwoParaFile == MkFile(<<Shape(120, TRUE, 0), Shape(2000, FALSE, 2)>>)
OneParaFile == MkFile(<<Shape(2000, FALSE, 1)>>)
Books ==
  {<<f>> : f \in ChapterFiles}
    \cup UNION {[1..n -> {TwoParaFile, OneParaFile, MarkedFile}] : n \in 2..MaxFiles}

(* ------------------------------------------------------------------ *)
(* State of the translation service                                    *)
(* ------------------------------------------------------------------ *)
VARIABLES
  book,          \* the uploaded EPUB: its chapter files, in directory order
  workDir,       \* data/old_epub: [exists, files, from (the book it was extracted from)]
  outputEpub,    \* <book>_<lang>.epub: [exists, files]
  pc,            \* position of translateEPUB
  fileI,         \* loop variable i of translateEPUB (0-based)
  erroredOut,    \* translateEPUB's erroredOut, as its parts (<<>> when no error is recorded)
  raised,        \* what the last translateEPUB call threw ("none" if nothing)
  runs,          \* number of translateEPUB calls so far
  tf,            \* frame of the translateFile call in progress
  cacheMap,      \* translation cache: set of [key, value]
  pending,       \* the texts of the translateText calls whose answer is still to come
  chunksLog,     \* history: chunks handed to translateChunk for the current file
  textCalls,     \* history: translateText calls made for the current file
  attempted,     \* history: files translateFile was called on in this run
  failedFile,    \* history: file whose translateFile threw in this run (0 if none)
  completed,     \* history: files on which translateFile returned {translated: true}
  repackaged,    \* history: the 7zip step of this run has completed
  lastResult,    \* history: outcome of the last translateFile call
  chunkRet,      \* history: the last translateChunk call: [translated, translation, out]
  unfaithful     \* history: the provider has returned other than one part per paragraph

tvars == <<book, workDir, outputEpub, pc, fileI, erroredOut, raised, runs, tf, cacheMap,
           pending, chunksLog, textCalls, attempted, failedFile, completed, repackaged,
           lastResult, chunkRet, unfaithful>>

(* The reader page of the web application (src/unnamed/part_000). *)
VARIABLES
  page,          \* state of the page: the script's variables, the DOM classes,
                 \* the speech engine, the timers and the progress store
  ph             \* history: [actions, lastEvent, user, started, plan]

pvars == <<page, ph>>

(* The script scripts/fix-paragraph-order.ts, run on one chapter file. *)
VARIABLES
  fix            \* frame of fixParagraphOrder: [pc, paragraphs, filtered, i, result, written]

vars == <<tvars, pvars, fix>>

(* Error messages are kept as the sequence of their parts: fixed texts  *)
(* and references to a chapter file.                                    *)
Txt(s) == [kind |-> "text", text |-> s, file |-> 0]
FileRef(f) == [kind |-> "file", text |-> "", file |-> f]

(* translateText: throw new Error(`Translation failed: ${...}`) around  *)
(* what the browser or the extraction threw                             *)
TranslationFailed ==
  <<Txt("Translation failed: "), Txt("Could not extract translation from response")>>

(* translateEPUB: erroredOut = `Error during file translation: ${error.message}` *)
RecordedError(message) == <<Txt("Error during file translation: ")>> \o message

(* translateEPUB: throw new Error(erroredOut), wrapped by the outer catch *)
RaisedMessage(message) == <<Txt("Failed to translate full EPUB: ")>> \o message

NoRet == [translated |-> FALSE, translation |-> <<>>, out |-> <<>>, fromCache |-> FALSE]

NoFrame == [pc |-> "none", lines |-> <<>>, i |-> 0, chunk |-> <<>>, chunkLength |-> 0,
            chunkStart |-> 0, translatedContent |-> <<>>, delay |-> 0]

(* setTimeout(resolve, 120000) *)
CooldownMs == 120000

filesToTranslate == workDir.files

TInit ==
  /\ book \in Books
  /\ workDir = [exists |-> FALSE, files |-> <<>>, from |-> <<>>]
  /\ outputEpub = [exists |-> FALSE, files |-> <<>>]
  /\ pc = "notStarted"
  /\ fileI = 0
  /\ erroredOut = <<>>
  /\ raised = "none"
  /\ runs = 0
  /\ tf = NoFrame
  /\ cacheMap = {}
  /\ pending = <<>>
  /\ chunksLog = <<>>
  /\ textCalls = <<>>
  /\ attempted = {}
  /\ failedFile = 0
  /\ completed = {}
  /\ repackaged = FALSE
  /\ lastResult = "none"
  /\ chunkRet = NoRet
  /\ unfaithful = FALSE

(* Variant: the cache is never found to hold the key. *)
CachedNever(key) == {}

(* getFromCache *)
Cached(key) == {e \in cacheMap : e.key = key}

(* translateEPUB, steps 3 and 4: detect the content directory and list  *)
(* the chapter files; both throw when there is none.                   *)
EnterLoop(files) ==
  IF Len(files) = 0
  THEN /\ pc' = "done"
       /\ raised' = "nofiles"
  ELSE /\ pc' = "loop"
       /\ raised' = "none"

(* Variant: the working directory is never found. *)
DirMissing(dir) == FALSE

(* fs.existsSync(oldEpubDir) *)
existsSync(dir) == dir.exists

(* the book a later call of translateEPUB may be given instead *)
OtherBook(b) == IF b = <<OneParaFile>> THEN <<TwoParaFile>> ELSE <<OneParaFile>>

(* translateEPUB(originalFilename, ...) up to the extraction (or up to  *)
(* the loop, when the working directory is reused). The first call is   *)
(* for the uploaded book, a later one for the same book or another.     *)
translateEPUB ==
  /\ pc \in {"notStarted", "done"}
  /\ UNCHANGED <<pvars, fix>>
  /\ runs < MaxRuns
  /\ runs' = runs + 1
  /\ fileI' = 0
  /\ erroredOut' = <<>>
  /\ attempted' = {}
  /\ failedFile' = 0
  /\ repackaged' = FALSE
  /\ lastResult' = "none"
  /\ IF existsSync(workDir)
     THEN /\ EnterLoop(workDir.files)
          /\ UNCHANGED workDir
     ELSE /\ workDir' = [exists |-> TRUE, files |-> <<>>, from |-> <<>>]
          /\ pc' = "extracting"
          /\ raised' = "none"
  /\ book' \in IF runs = 0 THEN {book} ELSE {book, OtherBook(book)}
  /\ UNCHANGED <<outputEpub, tf, cacheMap, pending, chunksLog, textCalls, completed,
                 chunkRet, unfaithful>>

(* extractEpubWithPowerShell returns *)
ExtractDone ==
  /\ pc = "extracting"
  /\ UNCHANGED <<pvars, fix>>
  /\ workDir' = [workDir EXCEPT !.files = book, !.from = book]
  /\ EnterLoop(book)
  /\ UNCHANGED <<book, outputEpub, fileI, erroredOut, runs, tf, cacheMap, pending, chunksLog,
                 textCalls, attempted, failedFile, completed, repackaged, lastResult, chunkRet, unfaithful>>

(* extractEpubWithPowerShell throws: translateEPUB wraps and rethrows. *)
(* Expand-Archive may have written some of the files by then; the       *)
(* directory made before the extraction is not removed.                 *)
ExtractFail ==
  /\ pc = "extracting"
  /\ UNCHANGED <<pvars, fix>>
  /\ pc' = "done"
  /\ raised' = "extract"
  /\ \E n \in 0..(Len(book) - 1) :
       workDir' = [workDir EXCEPT !.files = SubSeq(book, 1, n), !.from = book]
  /\ UNCHANGED <<book, outputEpub, fileI, erroredOut, runs, tf, cacheMap, pending,
                 chunksLog, textCalls, attempted, failedFile, completed, repackaged, lastResult,
                 chunkRet, unfaithful>>

(* Loop head with i < filesToTranslate.length: translateFile is called. *)
(* It returns {skip: true} at once when the file holds the marker.      *)
translateFile ==
  /\ pc = "loop"
  /\ UNCHANGED <<pvars, fix>>
  /\ fileI < Len(filesToTranslate)
  /\ attempted' = attempted \cup {fileI + 1}
  /\ chunksLog' = <<>>
  /\ textCalls' = <<>>
  /\ chunkRet' = NoRet
  /\ LET originalContent == filesToTranslate[fileI + 1]
     IN  IF HasMarker(originalContent)
         THEN /\ lastResult' = "skip"
              /\ fileI' = fileI + 1
              /\ UNCHANGED <<pc, tf>>
         ELSE /\ lastResult' = "running"
              /\ pc' = "inFile"
              /\ tf' = [NoFrame EXCEPT !.pc = "outer", !.lines = originalContent]
              /\ UNCHANGED fileI
  /\ UNCHANGED <<book, workDir, outputEpub, erroredOut, raised, runs, cacheMap, pending,
                 failedFile, completed, repackaged, unfaithful>>

(* Loop head with i >= filesToTranslate.length: on to the 7zip step.    *)
LoopExit ==
  /\ pc = "loop"
  /\ UNCHANGED <<pvars, fix>>
  /\ fileI >= Len(filesToTranslate)
  /\ pc' = "packing"
  /\ UNCHANGED <<book, workDir, outputEpub, fileI, erroredOut, raised, runs, tf, cacheMap,
                 pending, chunksLog, textCalls, attempted, failedFile, completed, repackaged,
                 lastResult, chunkRet, unfaithful>>

(* Outer while of translateFile, condition true: a new chunk is begun.  *)
StartChunk ==
  /\ pc = "inFile"
  /\ UNCHANGED <<pvars, fix>>
  /\ tf.pc = "outer"
  /\ tf.i < Len(tf.lines)
  /\ ~(tf.i > DebugLineCap)
  /\ tf' = [tf EXCEPT !.pc = "inner", !.chunk = <<>>, !.chunkLength = 0, !.chunkStart = tf.i]
  /\ chunkRet' = NoRet
  /\ UNCHANGED <<book, workDir, outputEpub, pc, fileI, erroredOut, raised, runs, cacheMap,
                 pending, chunksLog, textCalls, attempted, failedFile, completed, repackaged,
                 lastResult, unfaithful>>

(* Variant: the line break is not counted.                              *)
ExceedsLimitNoNewline(chunkLength, line) == chunkLength + line.len > Limit

(* chunk.length + lineWithNewline.length > 4700 *)
ExceedsLimit(chunkLength, line) == chunkLength + (line.len + 1) > Limit

(* Inner while of translateFile over the lines lo..hi (1-based), in    *)
(* order: a line that fits is added and i advances, the first that      *)
(* does not fit ends the loop.  The range is walked by halves.          *)
RECURSIVE InnerWhile(_, _, _, _)
InnerWhile(lines, lo, hi, st) ==
  IF st.broke \/ lo > hi THEN st
  ELSE IF lo = hi
  THEN IF ExceedsLimit(st.chunkLength, lines[lo])
       THEN [st EXCEPT !.broke = TRUE]
       ELSE [st EXCEPT !.chunkLength = st.chunkLength + (lines[lo].len + 1), !.i = lo]
  ELSE LET mid == (lo + hi) \div 2
       IN  InnerWhile(lines, mid + 1, hi, InnerWhile(lines, lo, mid, st))

(* Inner while of translateFile, run to its end: the chunk is built.    *)
BuildChunk ==
  /\ pc = "inFile"
  /\ UNCHANGED <<pvars, fix>>
  /\ tf.pc = "inner"
  /\ LET st == InnerWhile(tf.lines, tf.i + 1, Len(tf.lines),
                          [i |-> tf.i, chunkLength |-> 0, broke |-> FALSE])
     IN  tf' = [tf EXCEPT !.pc = "built",
                          !.chunk = SubSeq(tf.lines, tf.i + 1, st.i),
                          !.chunkLength = st.chunkLength,
                          !.i = st.i]
  /\ UNCHANGED <<book, workDir, outputEpub, pc, fileI, erroredOut, raised, runs, cacheMap,
                 pending, chunksLog, textCalls, attempted, failedFile, completed, repackaged,
                 lastResult, chunkRet, unfaithful>>

(* Variant: the call is made and not awaited, the loop goes on.         *)
GoesOn(frame) == [frame EXCEPT !.pc = "outer"]

(* await this.translateChunk(...), await this.translateText(...): the   *)
(* loop of translateFile goes on when the call has returned.            *)
Awaits(frame) == [frame EXCEPT !.pc = "awaitText"]

(* translateChunk(chunk) is called on the chunk built.  It skips the    *)
(* translation of a chunk with at most one paragraph, returns the       *)
(* cached translation when translateText finds one, and otherwise       *)
(* sends the request to the provider.                                   *)
CloseChunk ==
  /\ pc = "inFile"
  /\ UNCHANGED <<pvars, fix>>
  /\ tf.pc = "built"
  /\ Len(chunksLog) < MaxChunks
  /\ chunksLog' = Append(chunksLog, tf.chunk)
  /\ LET textOnly == JoinParagraphs(Paragraphs(tf.chunk))
     IN  IF SkipsTranslation(tf.chunk)
         THEN /\ tf' = [tf EXCEPT !.pc = "outer",
                          !.translatedContent = tf.translatedContent \o ChunkResult(tf.chunk, <<>>)]
              /\ chunkRet' = [translated |-> FALSE, translation |-> <<>>,
                               out |-> ChunkResult(tf.chunk, <<>>), fromCache |-> FALSE]
              /\ UNCHANGED <<pending, textCalls>>
         ELSE /\ textCalls' = Append(textCalls, textOnly)
              /\ IF Cached(textOnly) # {}
                 THEN LET cached == (CHOOSE e \in Cached(textOnly) : TRUE).value
                      IN  /\ tf' = [tf EXCEPT !.pc = "outer",
                                      !.translatedContent = tf.translatedContent
                                         \o ChunkResult(tf.chunk, cached)]
                          /\ chunkRet' = [translated |-> TRUE, translation |-> cached,
                                           out |-> ChunkResult(tf.chunk, cached),
                                           fromCache |-> TRUE]
                          /\ UNCHANGED pending
                 ELSE /\ tf' = Awaits(tf)
                      /\ pending' = Append(pending, textOnly)
                      /\ UNCHANGED chunkRet
  /\ UNCHANGED <<book, workDir, outputEpub, pc, fileI, erroredOut, raised, runs, cacheMap,
                 attempted, failedFile, completed, repackaged, lastResult, unfaithful>>

(* The provider answers: translateText saves the translation to the     *)
(* cache and returns it, translateChunk assembles its result and        *)
(* translateFile appends it.                                            *)
ProviderReturn ==
  /\ pc = "inFile"
  /\ UNCHANGED <<pvars, fix>>
  /\ tf.pc = "awaitText"
  /\ \E translation \in ProviderAnswers(Head(pending)) :
       /\ cacheMap' = {e \in cacheMap : e.key # Head(pending)}
                         \cup {[key |-> Head(pending), value |-> translation]}
       /\ tf' = [tf EXCEPT !.pc = "outer",
                   !.translatedContent = tf.translatedContent \o ChunkResult(tf.chunk, translation)]
       /\ chunkRet' = [translated |-> TRUE, translation |-> translation,
                        out |-> ChunkResult(tf.chunk, translation), fromCache |-> FALSE]
       /\ unfaithful' = (unfaithful \/ translation # Faithful(Head(pending)))
  /\ pending' = Tail(pending)
  /\ UNCHANGED <<book, workDir, outputEpub, pc, fileI, erroredOut, raised, runs, chunksLog,
                 textCalls, attempted, failedFile, completed, repackaged, lastResult>>

(* Variant: the error is rethrown at once, without the 7zip step.       *)
ProviderFailRethrows ==
  /\ pc = "inFile"
  /\ UNCHANGED <<pvars, fix>>
  /\ tf.pc = "awaitText"
  /\ pending' = Tail(pending)
  /\ tf' = NoFrame
  /\ erroredOut' = RecordedError(TranslationFailed)
  /\ failedFile' = fileI + 1
  /\ lastResult' = "threw"
  /\ raised' = "translation"
  /\ pc' = "done"
  /\ UNCHANGED <<book, workDir, outputEpub, fileI, runs, cacheMap, chunksLog,
                 textCalls, attempted, completed, repackaged, chunkRet, unfaithful>>

(* Variant: what was translated so far is written before the rethrow.   *)
ProviderFailWritesPartial ==
  /\ pc = "inFile"
  /\ UNCHANGED <<pvars, fix>>
  /\ tf.pc = "awaitText"
  /\ pending' = Tail(pending)
  /\ workDir' = [workDir EXCEPT !.files[fileI + 1] = tf.translatedContent \o <<CloseElem>>]
  /\ tf' = NoFrame
  /\ erroredOut' = RecordedError(TranslationFailed)
  /\ failedFile' = fileI + 1
  /\ lastResult' = "threw"
  /\ pc' = "packing"
  /\ UNCHANGED <<book, outputEpub, fileI, raised, runs, cacheMap, chunksLog,
                 textCalls, attempted, completed, repackaged, chunkRet, unfaithful>>

(* The provider call fails: translateText, translateChunk and           *)
(* translateFile rethrow; the catch around translateEPUB's loop records *)
(* the message and the run goes on with the 7zip step.                  *)
ProviderFail ==
  /\ pc = "inFile"
  /\ UNCHANGED <<pvars, fix>>
  /\ tf.pc = "awaitText"
  /\ pending' = Tail(pending)
  /\ tf' = NoFrame
  /\ erroredOut' = RecordedError(TranslationFailed)
  /\ failedFile' = fileI + 1
  /\ lastResult' = "threw"
  /\ pc' = "packing"
  /\ UNCHANGED <<book, workDir, outputEpub, fileI, raised, runs, cacheMap, chunksLog,
                 textCalls, attempted, completed, repackaged, chunkRet, unfaithful>>

(* Variant: translateFile returns once the file is written.             *)
WriteFileReturns ==
  /\ pc = "inFile"
  /\ UNCHANGED <<pvars, fix>>
  /\ tf.pc = "outer"
  /\ ~(tf.i < Len(tf.lines) /\ ~(tf.i > DebugLineCap))
  /\ workDir' = [workDir EXCEPT !.files[fileI + 1] = tf.translatedContent \o <<CloseElem>>]
  /\ tf' = NoFrame
  /\ completed' = completed \cup {fileI + 1}
  /\ lastResult' = "translated"
  /\ fileI' = fileI + 1
  /\ pc' = "loop"
  /\ UNCHANGED <<book, outputEpub, erroredOut, raised, runs, cacheMap, pending,
                 chunksLog, textCalls, attempted, failedFile, repackaged,
                 chunkRet, unfaithful>>

(* Outer while of translateFile left: the closing tags are appended and *)
(* the file is written back; the 120 s delay starts.                    *)
WriteFile ==
  /\ pc = "inFile"
  /\ UNCHANGED <<pvars, fix>>
  /\ tf.pc = "outer"
  /\ ~(tf.i < Len(tf.lines) /\ ~(tf.i > DebugLineCap))
  /\ workDir' = [workDir EXCEPT !.files[fileI + 1] = tf.translatedContent \o <<CloseElem>>]
  /\ tf' = [tf EXCEPT !.pc = "cooldown", !.delay = CooldownMs]
  /\ UNCHANGED <<book, outputEpub, pc, fileI, erroredOut, raised, runs, cacheMap, pending,
                 chunksLog, textCalls, attempted, failedFile, completed, repackaged, lastResult,
                 chunkRet, unfaithful>>

(* The delay is over: translateFile returns {translated: true} and the  *)
(* loop of translateEPUB advances.                                      *)
CooldownDone ==
  /\ pc = "inFile"
  /\ UNCHANGED <<pvars, fix>>
  /\ tf.pc = "cooldown"
  /\ tf' = NoFrame
  /\ completed' = completed \cup {fileI + 1}
  /\ lastResult' = "translated"
  /\ fileI' = fileI + 1
  /\ pc' = "loop"
  /\ UNCHANGED <<book, workDir, outputEpub, erroredOut, raised, runs, cacheMap, pending,
                 chunksLog, textCalls, attempted, failedFile, repackaged,
                 chunkRet, unfaithful>>

(* 7zip succeeds; afterwards a recorded error is thrown.                *)
PackDone ==
  /\ pc = "packing"
  /\ UNCHANGED <<pvars, fix>>
  /\ outputEpub' = [exists |-> TRUE, files |-> workDir.files]
  /\ repackaged' = TRUE
  /\ raised' = IF erroredOut # <<>> THEN "translation" ELSE "none"
  /\ pc' = "done"
  /\ UNCHANGED <<book, workDir, fileI, erroredOut, runs, tf, cacheMap, pending, chunksLog,
                 textCalls, attempted, failedFile, completed, lastResult,
                 chunkRet, unfaithful>>

(* 7zip fails: its error is thrown.                                     *)
PackFail ==
  /\ pc = "packing"
  /\ UNCHANGED <<pvars, fix>>
  /\ raised' = "pack"
  /\ pc' = "done"
  /\ UNCHANGED <<book, workDir, outputEpub, fileI, erroredOut, runs, tf, cacheMap, pending,
                 chunksLog, textCalls, attempted, failedFile, completed, repackaged, lastResult,
                 chunkRet, unfaithful>>

TNext ==
  \/ translateEPUB
  \/ ExtractDone
  \/ ExtractFail
  \/ translateFile
  \/ LoopExit
  \/ StartChunk
  \/ BuildChunk
  \/ CloseChunk
  \/ ProviderReturn
  \/ ProviderFail
  \/ WriteFile
  \/ CooldownDone
  \/ PackDone
  \/ PackFail

(* ================================================================== *)
(* The playback scheduler (client side)                                *)
(* ================================================================== *)
MAX_SPEAK_DEPTH == 100
IdleIndex == 1000

MaxParas == 3
MaxActions == 2

(* The page after its script has run, for a paragraph stream, a stored  *)
(* visibility filter, a stored progress and a browser whose cancel()    *)
(* does or does not clear the engine's paused state and whose engine    *)
(* can or cannot synthesise the text (without a usable voice every      *)
(* utterance errors before it starts). An engine that cannot may run    *)
(* the error callback inside speak() itself: syncCallbacks.             *)
PageLoaded(stream, filter, saved, clears, synth) ==
  [ paragraphData |-> stream,
    showLang |-> filter,
    queue |-> <<>>,
    currentIndex |-> -1,
    userPaused |-> FALSE,
    currentPlayingIdx |-> -1,
    speakNextCallDepth |-> 0,
    playing |-> {},              \* paragraphs carrying the class "playing"
    utterances |-> <<>>,         \* the engine's queue; its head is the one spoken
    paused |-> FALSE,            \* speechSynthesis.paused
    cancelClearsPause |-> clears,
    canSynthesise |-> synth,
    syncCallbacks |-> FALSE,
    errorReported |-> FALSE,     \* console.error of the guard of speakNext
    stale |-> <<>>,              \* cancelled utterances whose event is still to come
    timers |-> <<>>,             \* pending resumeOrRestart timers (their idx)
    saveReqs |-> {},             \* POST /save-progress requests in flight
    progress |-> saved,          \* paragraphIndex stored for the book
    savedParagraphIndex |-> saved,  \* window.TTS_DATA.savedParagraphIndex
    loadTimer |-> TRUE,          \* the 300 ms timer of the load handler is pending
    wakeLock |-> "none",         \* "none", "requested" (null, request in flight) or "held"
    lockReqs |-> 0,              \* navigator.wakeLock.request() calls not yet resolved
    untracked |-> FALSE,         \* a sentinel was acquired that no variable refers to
    spoken |-> <<>> ]            \* history: idx of the items handed to speak()

NoEvent == [kind |-> "none", idx |-> -1]

(* The callback of the timer the window load handler sets: the          *)
(* paragraph at the saved index, when there is one after the first, is  *)
(* scrolled to and given the class "playing".                           *)
loadTimerCallback(s) ==
  LET s1 == [s EXCEPT !.loadTimer = FALSE]
  IN  IF s.savedParagraphIndex > 0 /\ s.savedParagraphIndex < Len(s.paragraphData)
      THEN [s1 EXCEPT !.playing = s.playing \cup {s.savedParagraphIndex}]
      ELSE s1

(* requestWakeLock(): a request is made unless the variable wakeLock    *)
(* holds a sentinel -- also when an earlier request is still in flight; *)
(* the sentinel is stored when the request resolves.                    *)
requestWakeLock(s) ==
  IF s.wakeLock # "held"
  THEN [s EXCEPT !.wakeLock = "requested", !.lockReqs = s.lockReqs + 1]
  ELSE s

(* A request resolves: wakeLock = sentinel. A sentinel the variable     *)
(* held until then is no longer referred to.                            *)
wakeLockResolves(s) ==
  [s EXCEPT !.wakeLock = "held",
            !.lockReqs = s.lockReqs - 1,
            !.untracked = s.untracked \/ s.wakeLock = "held"]

(* releaseWakeLock(): the sentinel the variable holds, if any, is       *)
(* released; a request still in flight is not affected.                 *)
releaseWakeLock(s) ==
  IF s.wakeLock = "held"
  THEN [s EXCEPT !.wakeLock = IF s.lockReqs > 0 THEN "requested" ELSE "none"]
  ELSE s

(* speechSynthesis.cancel(): the queue is emptied; the utterances that  *)
(* were in it get their end or error event later.                       *)
EngineCancel(s) ==
  [s EXCEPT !.utterances = <<>>,
            !.stale = s.stale \o s.utterances,
            !.paused = IF s.cancelClearsPause THEN FALSE ELSE s.paused]

(* speechSynthesis.speak(u) *)
EngineSpeak(s, item) ==
  [s EXCEPT !.utterances = Append(s.utterances, [idx |-> item.idx, started |-> FALSE]),
            !.spoken = Append(s.spoken, item.idx)]

(* applyLanguageFilter: the paragraphs that carry the class "hidden" *)
Hidden(s, idx) ==
  \/ s.showLang = "en" /\ s.paragraphData[idx + 1] = "fr"
  \/ s.showLang = "fr" /\ s.paragraphData[idx + 1] = "en"

(* The callbacks of an utterance end by calling speakNext or by         *)
(* returning: [page, call] is the page they leave and whether the call  *)
(* of speakNext is due.                                                 *)
Returns(s) == [page |-> s, call |-> FALSE]
Calls(s) == [page |-> s, call |-> TRUE]

(* u.onerror up to its last statement *)
onerrorBody(s, idx) ==
  IF s.currentIndex + 1 >= Len(s.queue)
  THEN Returns([s EXCEPT !.playing = {}, !.currentIndex = IdleIndex, !.speakNextCallDepth = 0])
  ELSE Calls([s EXCEPT !.currentIndex = s.currentIndex + 1])

(* Variant: the depth is not looked at. *)
DepthExceededNever(s) == FALSE

(* speakNextCallDepth++; if (speakNextCallDepth > MAX_SPEAK_DEPTH) *)
DepthExceeded(s) == s.speakNextCallDepth + 1 > MAX_SPEAK_DEPTH

(* One entry of speakNext. An engine with syncCallbacks runs u.onerror  *)
(* inside speak(u): the utterance is gone and the callback has run up   *)
(* to its own call of speakNext when speak returns.                     *)
speakNextEntry(s) ==
  IF DepthExceeded(s)
  THEN Returns([s EXCEPT !.speakNextCallDepth = 0, !.errorReported = TRUE])
  ELSE IF s.currentIndex < 0 \/ s.currentIndex >= Len(s.queue)
  THEN Returns([s EXCEPT !.currentIndex = IdleIndex, !.currentPlayingIdx = -1, !.playing = {},
                         !.speakNextCallDepth = 0])
  ELSE LET item == s.queue[s.currentIndex + 1]
           s1 == EngineSpeak([s EXCEPT !.speakNextCallDepth = s.speakNextCallDepth + 1], item)
       IN  IF s.syncCallbacks
           THEN onerrorBody([s1 EXCEPT !.utterances = SubSeq(s1.utterances, 1,
                                                             Len(s1.utterances) - 1)],
                            item.idx)
           ELSE Returns(s1)

(* The nested entries of speakNext: each is the last statement of the  *)
(* callback that makes it, so the nest is followed entry after entry,  *)
(* at most n of them (by halves, to keep the evaluation shallow).      *)
RECURSIVE Nested(_, _)
Nested(f, n) ==
  IF n = 0 \/ ~f.call THEN f
  ELSE IF n = 1 THEN speakNextEntry(f.page)
  ELSE Nested(Nested(f, n \div 2), n - (n \div 2))

speakNext(s) == Nested(Calls(s), Len(s.queue) + 1).page

(* Variant: the queue items are numbered by their place in the queue.  *)
BuildQueueRenumbered(s) ==
  LET items == [k \in 1..Len(s.paragraphData) |-> [lang |-> s.paragraphData[k], idx |-> k - 1]]
      kept == IF s.showLang = "en" THEN SelectSeq(items, LAMBDA it : it.lang = "en")
              ELSE IF s.showLang = "fr" THEN SelectSeq(items, LAMBDA it : it.lang = "fr")
              ELSE items
  IN  [k \in 1..Len(kept) |-> [lang |-> kept[k].lang, idx |-> k - 1]]

(* The queue speakParagraphs builds for the current filter.             *)
BuildQueue(s) ==
  LET items == [k \in 1..Len(s.paragraphData) |-> [lang |-> s.paragraphData[k], idx |-> k - 1]]
  IN  IF s.showLang = "en" THEN SelectSeq(items, LAMBDA it : it.lang = "en")
      ELSE IF s.showLang = "fr" THEN SelectSeq(items, LAMBDA it : it.lang = "fr")
      ELSE items

(* Variant: the paragraph index is taken for the queue position. *)
StartPosUnmapped(queue, startIdx) ==
  IF startIdx < Len(queue) THEN startIdx ELSE 0

(* queue.findIndex(it => it.idx === startIdx), 0 when there is none *)
StartPos(queue, startIdx) ==
  LET found == {k \in 1..Len(queue) : queue[k].idx = startIdx}
  IN  IF found = {} THEN 0 ELSE (CHOOSE k \in found : \A j \in found : k <= j) - 1

speakParagraphs(s, startIdx) ==
  LET items == BuildQueue(s)
  IN  speakNext(requestWakeLock([s EXCEPT !.queue = items,
                                           !.currentIndex = StartPos(items, startIdx)]))

markPlaying(s, idx) ==
  LET s1 == [s EXCEPT !.currentPlayingIdx = idx]
  IN  IF idx < Len(s.paragraphData) /\ s.paragraphData[idx + 1] = "fr"
      THEN [s1 EXCEPT !.playing = {idx}]
      ELSE s1

(* the callbacks speakNext gives an utterance for the queue item idx *)
onstart(s, idx) ==
  markPlaying([s EXCEPT !.userPaused = FALSE, !.speakNextCallDepth = 0], idx)

onend(s, idx) ==
  LET s1 == [s EXCEPT !.saveReqs = s.saveReqs \cup {idx + 1}]
  IN  IF s1.currentIndex + 1 >= Len(s1.queue)
      THEN releaseWakeLock([s1 EXCEPT !.playing = {}, !.currentIndex = IdleIndex,
                                      !.speakNextCallDepth = 0])
      ELSE speakNext([s1 EXCEPT !.currentIndex = s1.currentIndex + 1])

(* Variant: an error saves the progress as a completion does. *)
onerrorSaves(s, idx) == onend(s, idx)

onerror(s, idx) ==
  LET f == onerrorBody(s, idx)
  IN  IF f.call THEN speakNext(f.page) ELSE f.page

(* resumeOrRestart(idx): resume now, check 180 ms later *)
resumeOrRestart(s, idx) ==
  [requestWakeLock(s) EXCEPT !.paused = FALSE, !.timers = Append(s.timers, idx)]

(* s.speaking: an utterance is being spoken; s.pending: one is waiting *)
Speaking(s) == \E k \in 1..Len(s.utterances) : s.utterances[k].started
Pending(s) == \E k \in 1..Len(s.utterances) : ~s.utterances[k].started

(* ------------------------------------------------------------------ *)
(* Pages and user input                                                *)
(* ------------------------------------------------------------------ *)
LongLen == MAX_SPEAK_DEPTH + 1

(* A translated chapter alternates translated and original paragraphs; *)
(* an untranslated one has original paragraphs only.                   *)
PairedStream(n) == [k \in 1..n |-> IF k % 2 = 1 THEN "fr" ELSE "en"]
PlainStream(n) == [k \in 1..n |-> "en"]

(* a chapter whose original paragraphs come before their translations *)
OriginalFirstStream == <<"en", "fr", "en", "fr">>

Streams ==
  {PairedStream(n) : n \in 0..MaxParas} \cup {PlainStream(n) : n \in 0..MaxParas}
    \cup {OriginalFirstStream}

(* a chapter long enough for the guard of speakNext, read by an engine *)
(* that cannot synthesise it                                            *)
LongStream == PlainStream(LongLen)

Filters == {"both", "en", "fr"}

(* user actions the exploration follows on a page *)
ActionBudget(s) ==
  IF Len(s.paragraphData) > LongLen THEN 0
  ELSE IF Len(s.paragraphData) > MaxParas THEN 1 ELSE MaxActions

(* the paragraphs a click can land on: the visible ones *)
ClickTargets(s) ==
  {k \in 0..(Len(s.paragraphData) - 1) : k < MaxParas /\ ~Hidden(s, k)}

(* what a start at startIdx is to speak: the queue from its position on *)
Plan(s, startIdx) ==
  LET items == BuildQueue(s)
      p == StartPos(items, startIdx)
  IN  [k \in 1..(Len(items) - p) |-> items[p + k].idx]

(* cancel() followed by speakParagraphs(idx) *)
Restart(s, idx) == speakParagraphs(requestWakeLock(EngineCancel(s)), idx)

(* The request of saveProgressToServer touches nothing the page reads: *)
(* it is followed to its answer before anything else on the page.      *)
CanSave(s) == s.saveReqs = {}

(* A wake lock request resolves before the engine reports on an         *)
(* utterance handed to it and before the 180 ms timer.                  *)
LockSettled(s) == s.lockReqs = 0

(* The timer of the load handler fires before the reader's first       *)
(* action on the page.                                                  *)
Positioned(s) == ~s.loadTimer

(* The page in the middle of a session: after Play, with the wake lock  *)
(* granted and the first queue item being spoken ...                    *)
PlayingPage(stream, filter, clears) ==
  LET s0 == speakParagraphs(loadTimerCallback(PageLoaded(stream, filter, 0, clears, TRUE)), 0)
      s1 == [s0 EXCEPT !.wakeLock = "held", !.lockReqs = 0, !.utterances[1].started = TRUE]
  IN  onstart(s1, s1.utterances[1].idx)

(* ... and after Pause was pressed then.                                *)
PausedPage(stream, filter, clears) ==
  [PlayingPage(stream, filter, clears) EXCEPT !.userPaused = TRUE, !.paused = TRUE]

(* the chapter the sessions under way are about *)
SessionStream == PairedStream(2)

(* A chapter with more paragraphs than the cursor value speakNext       *)
(* leaves at the end of the queue.                                      *)
HugeStream == PlainStream(IdleIndex + 1)

(* The page after a click on the last paragraph of the chapter, that    *)
(* paragraph being spoken.                                              *)
SpeakingLast(stream) ==
  LET last == Len(stream) - 1
      s0 == speakParagraphs(loadTimerCallback(PageLoaded(stream, "both", 0, TRUE, TRUE)), last)
      s1 == [s0 EXCEPT !.wakeLock = "held", !.lockReqs = 0, !.utterances[1].started = TRUE]
  IN  onstart(s1, s1.utterances[1].idx)

PInit ==
  \/ /\ \/ \E stream \in Streams, filter \in Filters, clears \in BOOLEAN :
             page = PageLoaded(stream, filter, 0, clears, TRUE)
        \/ \E filter \in Filters, sync \in BOOLEAN :
             page = [PageLoaded(LongStream, filter, 0, TRUE, FALSE)
                       EXCEPT !.syncCallbacks = sync]
        \/ \E filter \in Filters, saved \in 1..Len(SessionStream) :
             page = PageLoaded(SessionStream, filter, saved, TRUE, TRUE)
     /\ ph = [actions |-> 0, lastEvent |-> NoEvent, user |-> "none", started |-> FALSE,
              plan |-> <<>>]
  \/ \E clears \in BOOLEAN :
       /\ page = PlayingPage(SessionStream, "both", clears)
       /\ ph = [actions |-> 0, lastEvent |-> [kind |-> "onstart", idx |-> 0],
                user |-> "play", started |-> TRUE,
                plan |-> Plan(PageLoaded(SessionStream, "both", 0, clears, TRUE), 0)]
  \/ \E clears \in BOOLEAN :
       /\ page = PausedPage(SessionStream, "both", clears)
       /\ ph = [actions |-> 0, lastEvent |-> [kind |-> "pause", idx |-> -1],
                user |-> "pause", started |-> FALSE, plan |-> <<>>]
  \/ /\ page = SpeakingLast(HugeStream)
     /\ ph = [actions |-> 0, lastEvent |-> [kind |-> "onstart", idx |-> Len(HugeStream) - 1],
              user |-> "click", started |-> TRUE,
              plan |-> Plan(PageLoaded(HugeStream, "both", 0, TRUE, TRUE),
                            Len(HugeStream) - 1)]

UserStarts(kind, k) ==
  /\ page' = Restart([page EXCEPT !.spoken = <<>>], k)
  /\ ph' = [actions |-> ph.actions + 1, lastEvent |-> [kind |-> kind, idx |-> k],
            user |-> kind, started |-> TRUE, plan |-> Plan(page, k)]

UserDoes(kind, k, s) ==
  /\ page' = s
  /\ ph' = [ph EXCEPT !.actions = ph.actions + 1, !.lastEvent = [kind |-> kind, idx |-> k],
                      !.user = kind, !.started = FALSE]

Engine(kind, k, s) ==
  /\ page' = s
  /\ ph' = [ph EXCEPT !.lastEvent = [kind |-> kind, idx |-> k]]

BtnPlay ==
  /\ ph.actions < ActionBudget(page)
  /\ Positioned(page)
  /\ CanSave(page)
  /\ UserStarts("play", 0)
  /\ UNCHANGED <<tvars, fix>>

BtnPause ==
  /\ ph.actions < ActionBudget(page)
  /\ Positioned(page)
  /\ CanSave(page)
  /\ UserDoes("pause", -1, [page EXCEPT !.userPaused = TRUE, !.paused = TRUE])
  /\ UNCHANGED <<tvars, fix>>

BtnResume ==
  /\ ph.actions < ActionBudget(page)
  /\ Positioned(page)
  /\ CanSave(page)
  /\ UserDoes("resume", -1,
              [requestWakeLock(page) EXCEPT !.userPaused = FALSE, !.paused = FALSE])
  /\ UNCHANGED <<tvars, fix>>

BtnStop ==
  /\ ph.actions < ActionBudget(page)
  /\ Positioned(page)
  /\ CanSave(page)
  /\ UserDoes("stop", -1,
              releaseWakeLock([EngineCancel(page) EXCEPT !.currentIndex = -1, !.playing = {}]))
  /\ UNCHANGED <<tvars, fix>>

Click ==
  /\ ph.actions < ActionBudget(page)
  /\ Positioned(page)
  /\ CanSave(page)
  /\ \E k \in ClickTargets(page) :
       IF k = page.currentPlayingIdx
       THEN IF page.paused \/ page.userPaused
            THEN UserDoes("clickResume", k,
                          resumeOrRestart([page EXCEPT !.userPaused = FALSE], k))
            ELSE IF Speaking(page)
            THEN UserDoes("clickPause", k, [page EXCEPT !.userPaused = TRUE, !.paused = TRUE])
            ELSE UserStarts("click", k)
       ELSE UserStarts("click", k)
  /\ UNCHANGED <<tvars, fix>>

Space ==
  /\ ph.actions < ActionBudget(page)
  /\ Positioned(page)
  /\ CanSave(page)
  /\ IF page.paused \/ page.userPaused
     THEN LET curIdx == IF page.currentIndex >= 0 /\ page.currentIndex < Len(page.queue)
                        THEN page.queue[page.currentIndex + 1].idx
                        ELSE 0
          IN  UserDoes("spaceResume", curIdx,
                       resumeOrRestart(requestWakeLock([page EXCEPT !.userPaused = FALSE]),
                                       curIdx))
     ELSE IF Speaking(page)
     THEN UserDoes("spacePause", -1, [page EXCEPT !.userPaused = TRUE, !.paused = TRUE])
     ELSE UserDoes("space", -1, page)
  /\ UNCHANGED <<tvars, fix>>

FilterChange ==
  /\ ph.actions < ActionBudget(page)
  /\ Positioned(page)
  /\ CanSave(page)
  /\ \E v \in Filters \ {page.showLang} :
       UserDoes("filter", -1,
                [EngineCancel([page EXCEPT !.showLang = v])
                   EXCEPT !.currentIndex = -1, !.playing = {}])
  /\ UNCHANGED <<tvars, fix>>

(* ------------------------------------------------------------------ *)
(* The speech engine's events, the timers and the server               *)
(* ------------------------------------------------------------------ *)
UtterStart ==
  /\ page.canSynthesise
  /\ LockSettled(page)
  /\ CanSave(page)
  /\ ~page.paused
  /\ page.stale = <<>>
  /\ page.utterances # <<>>
  /\ ~Head(page.utterances).started
  /\ LET u == Head(page.utterances)
     IN  Engine("onstart", u.idx,
                onstart([page EXCEPT !.utterances[1].started = TRUE], u.idx))
  /\ UNCHANGED <<tvars, fix>>

UtterEnd ==
  /\ LockSettled(page)
  /\ ~page.paused
  /\ page.stale = <<>>
  /\ page.utterances # <<>>
  /\ Head(page.utterances).started
  /\ LET u == Head(page.utterances)
     IN  /\ CanSave(page)
         /\ Engine("onend", u.idx,
                   onend([page EXCEPT !.utterances = Tail(page.utterances)], u.idx))
  /\ UNCHANGED <<tvars, fix>>

UtterError ==
  /\ LockSettled(page)
  /\ CanSave(page)
  /\ ~page.paused
  /\ page.stale = <<>>
  /\ page.utterances # <<>>
  /\ LET u == Head(page.utterances)
     IN  Engine("onerror", u.idx,
                onerror([page EXCEPT !.utterances = Tail(page.utterances)], u.idx))
  /\ UNCHANGED <<tvars, fix>>

(* A cancelled utterance hears of it later, and before the engine      *)
(* turns to the utterances handed to it since: one that was being      *)
(* spoken gets an end or an error event, depending on the browser; one *)
(* that was still waiting gets an error event or none.                 *)
StaleEnd ==
  /\ page.stale # <<>>
  /\ Head(page.stale).started
  /\ LET u == Head(page.stale)
     IN  /\ CanSave(page)
         /\ Engine("onend", u.idx, onend([page EXCEPT !.stale = Tail(page.stale)], u.idx))
  /\ UNCHANGED <<tvars, fix>>

StaleError ==
  /\ CanSave(page)
  /\ page.stale # <<>>
  /\ LET u == Head(page.stale)
     IN  Engine("onerror", u.idx, onerror([page EXCEPT !.stale = Tail(page.stale)], u.idx))
  /\ UNCHANGED <<tvars, fix>>

StaleDrop ==
  /\ CanSave(page)
  /\ page.stale # <<>>
  /\ ~Head(page.stale).started
  /\ Engine("dropped", Head(page.stale).idx, [page EXCEPT !.stale = Tail(page.stale)])
  /\ UNCHANGED <<tvars, fix>>

(* the timer of resumeOrRestart *)
TimerFire ==
  /\ LockSettled(page)
  /\ CanSave(page)
  /\ page.timers # <<>>
  /\ LET idx == Head(page.timers)
         s == [page EXCEPT !.timers = Tail(page.timers)]
     IN  IF s.paused \/ (~Speaking(s) /\ ~Pending(s))
         THEN Engine("timer", idx, Restart(s, idx))
         ELSE Engine("timer", idx, s)
  /\ UNCHANGED <<tvars, fix>>

(* navigator.wakeLock.request('screen') resolves: wakeLock = sentinel *)
WakeLockGranted ==
  /\ CanSave(page)
  /\ page.lockReqs > 0
  /\ Engine("granted", -1, wakeLockResolves(page))
  /\ UNCHANGED <<tvars, fix>>

(* POST /save-progress *)
ServerSave ==
  /\ \E paragraphIndex \in page.saveReqs :
       Engine("saved", paragraphIndex,
              [page EXCEPT !.saveReqs = page.saveReqs \ {paragraphIndex},
                           !.progress = paragraphIndex])
  /\ UNCHANGED <<tvars, fix>>

LoadTimerFire ==
  /\ page.loadTimer
  /\ page' = loadTimerCallback(page)
  /\ ph' = [ph EXCEPT !.lastEvent = [kind |-> "loadTimer", idx |-> page.savedParagraphIndex]]
  /\ UNCHANGED <<tvars, fix>>

PNext ==
  \/ LoadTimerFire
  \/ BtnPlay
  \/ BtnPause
  \/ BtnResume
  \/ BtnStop
  \/ Click
  \/ Space
  \/ FilterChange
  \/ UtterStart
  \/ UtterEnd
  \/ UtterError
  \/ StaleEnd
  \/ StaleError
  \/ StaleDrop
  \/ TimerFire
  \/ WakeLockGranted
  \/ ServerSave

(* ------------------------------------------------------------------ *)
(* Specifications                                                      *)
(* ------------------------------------------------------------------ *)
(* the translation service, with no page open *)
NoPage ==
  /\ page = PageLoaded(<<>>, "both", 0, TRUE, TRUE)
  /\ ph = [actions |-> 0, lastEvent |-> NoEvent, user |-> "none", started |-> FALSE,
          plan |-> <<>>]

(* the script fix-paragraph-order.ts is not run *)
NoFix ==
  fix = [pc |-> "none", paragraphs |-> <<>>, filtered |-> <<>>, i |-> 0, result |-> <<>>,
         written |-> <<>>]

Init == TInit /\ NoPage /\ NoFix

Spec == Init /\ [][TNext]_vars

(* the reader page, with no translation running *)
NoBook ==
  /\ TInit
  /\ book = <<OneParaFile>>

PlayerInit == NoBook /\ PInit /\ NoFix

PlayerSpec == PlayerInit /\ [][PNext]_vars

(* ================================================================== *)
(* The script fix-paragraph-order.ts                                   *)
(* ================================================================== *)
MaxFixParas == 4

(* A <p> element of the body as parseParagraphs records it. isEmpty is  *)
(* the test /<p[^>]*>\s*<\/p>/; bare tells the element is exactly       *)
(* <p style="font-style: italic;"></p>, which the test of step 1 looks  *)
(* for in the file.                                                     *)
Paragraph(id, kind) ==
  [id |-> id,
   isItalic |-> kind \in {"italic", "emptyItalic", "blankItalic"},
   isEmpty |-> kind \in {"emptyItalic", "blankItalic", "emptyPlain"},
   bare |-> kind = "emptyItalic"]

ParagraphKinds == {"plain", "italic", "emptyItalic", "blankItalic", "emptyPlain"}

(* parseParagraphs: the <p> elements of a body, in document order *)
parseParagraphs(kinds) == [k \in 1..Len(kinds) |-> Paragraph(k, kinds[k])]

ChapterBodies == {parseParagraphs(kinds) : kinds \in SeqsUpTo(ParagraphKinds, MaxFixParas)}

(* emptyItalicRegex.test(content) *)
HasEmptyItalic(paragraphs) == \E k \in 1..Len(paragraphs) : paragraphs[k].bare

KeptByFilter(p) == ~(p.isItalic /\ p.isEmpty)

Last(s) == s[Len(s)]

(* fixParagraphOrder, steps 1 to 3: skip the file without an empty      *)
(* italic paragraph, else parse it and drop the empty italic paragraphs *)
FixStart ==
  /\ fix.pc = "start"
  /\ IF ~HasEmptyItalic(fix.paragraphs)
     THEN fix' = [fix EXCEPT !.pc = "skipped"]
     ELSE fix' = [fix EXCEPT !.pc = "loop",
                             !.filtered = SelectSeq(fix.paragraphs, KeptByFilter),
                             !.i = 0,
                             !.result = <<>>]
  /\ UNCHANGED <<tvars, pvars>>

(* one turn of the loop over filtered *)
FixTurn ==
  /\ fix.pc = "loop"
  /\ fix.i < Len(fix.filtered)
  /\ LET i == fix.i
         current == fix.filtered[i + 1]
         result == fix.result
     IN  IF i > 0 /\ Len(result) > 0 /\ Last(result).isItalic /\ current.isItalic
         THEN fix' = [fix EXCEPT !.result = result \o SubSeq(fix.filtered, i + 1, Len(fix.filtered)),
                                 !.i = Len(fix.filtered)]
         ELSE IF current.isItalic /\ Len(result) > 0 /\ ~Last(result).isItalic
         THEN fix' = [fix EXCEPT !.result = SubSeq(result, 1, Len(result) - 1)
                                              \o <<current, Last(result)>>,
                                 !.i = i + 1]
         ELSE fix' = [fix EXCEPT !.result = Append(result, current), !.i = i + 1]
  /\ UNCHANGED <<tvars, pvars>>

(* step 4: the file is written back *)
FixWrite ==
  /\ fix.pc = "loop"
  /\ fix.i >= Len(fix.filtered)
  /\ fix' = [fix EXCEPT !.pc = "done", !.written = fix.result]
  /\ UNCHANGED <<tvars, pvars>>

FixNext ==
  \/ FixStart
  \/ FixTurn
  \/ FixWrite

FixInit ==
  /\ NoBook
  /\ NoPage
  /\ \E paragraphs \in ChapterBodies :
       fix = [pc |-> "start", paragraphs |-> paragraphs, filtered |-> <<>>, i |-> 0,
              result |-> <<>>, written |-> <<>>]

FixSpec == FixInit /\ [][FixNext]_vars

(* ================================================================== *)
(* Properties of the translation service                               *)
(* ================================================================== *)

(* sum(len(line) + 1) over the lines of a chunk, by halves *)
RECURSIVE SizeRange(_, _, _)
SizeRange(chunk, lo, hi) ==
  IF lo > hi THEN 0
  ELSE IF lo = hi THEN chunk[lo].len + 1
  ELSE LET mid == (lo + hi) \div 2
       IN  SizeRange(chunk, lo, mid) + SizeRange(chunk, mid + 1, hi)
ChunkSize(chunk) == SizeRange(chunk, 1, Len(chunk))

(* the <p> elements of an output text *)
PElems(out) == SelectSeq(out, LAMBDA e : e.kind = "p")

(* C1: when translateFile throws for chapter file i, every remaining    *)
(* file i+1..n is still attempted: once the loop is over, translateFile *)
(* has been called on every file of the book.                           *)
C1_RemainingFilesAttempted ==
  (pc \in {"packing", "done"} /\ failedFile # 0)
    => attempted = 1..Len(filesToTranslate)

(* C2: a run that reached the file loop ends only after the 7zip step   *)
(* was run, whether or not a file failed; a recorded translation error  *)
(* is raised only once the output container holds the working           *)
(* directory, and not before the run is over.                           *)
C2_RepackagedBeforeRaise ==
  /\ (pc = "done" /\ attempted # {}) => (repackaged \/ raised = "pack")
  /\ raised = "translation" =>
       /\ pc = "done"
       /\ repackaged
       /\ erroredOut # <<>>
       /\ outputEpub = [exists |-> TRUE, files |-> workDir.files]
  /\ (pc = "done" /\ repackaged /\ erroredOut # <<>>) => raised = "translation"

C2_Witness ==
  /\ pc = "done"
  /\ failedFile # 0
  /\ repackaged
  /\ raised = "translation"

(* C3: the chunking loop terminates, also on a line longer than the     *)
(* limit: every chunk handed to translateChunk holds at least one line, *)
(* so that every pass of the outer loop advances in the file.           *)
C3_EveryChunkAdvances ==
  \A k \in 1..Len(chunksLog) : chunksLog[k] # <<>>

(* C4: when translateFile writes the file, the chunks it handed to      *)
(* translateChunk, concatenated in order, are the lines of the file.    *)
C4_ChunksReproduceFile ==
  (pc = "inFile" /\ tf.pc = "cooldown") => Flatten(chunksLog) = tf.lines

PairsOf(translatedParts, paragraphs) ==
  Flatten([k \in 1..Len(paragraphs) |->
             <<TranslatedElem(translatedParts[k]), ItalicElem(paragraphs[k])>>])

(* C6 as stated: for a chunk with N paragraphs whose translation        *)
(* succeeds, the output holds exactly N pairs, each a translated        *)
(* element followed by the original paragraph, in paragraph order.      *)
C6_ExactlyNPairs ==
  (pc = "inFile" /\ tf.pc = "outer" /\ chunkRet.translated) =>
    LET paragraphs == Paragraphs(tf.chunk)
        ps == PElems(chunkRet.out)
    IN  /\ Len(ps) = 2 * Len(paragraphs)
        /\ \A k \in 1..Len(paragraphs) :
             /\ ps[2 * k - 1].cls = "translated"
             /\ ps[2 * k] = ItalicElem(paragraphs[k])

(* C6 as amended: for a chunk with N paragraphs whose translation       *)
(* succeeds and splits into exactly N parts, the output holds exactly   *)
(* N pairs, the k-th being the k-th translated part followed by the     *)
(* k-th original paragraph; with M # N parts it holds max(N, M) pairs.  *)
C6_PairsWhenCountsAgree ==
  (pc = "inFile" /\ tf.pc = "outer" /\ chunkRet.translated) =>
    LET paragraphs == Paragraphs(tf.chunk)
        ps == PElems(chunkRet.out)
        N == Len(paragraphs)
        M == Len(chunkRet.translation)
    IN  /\ N >= 2
        /\ Len(ps) = 2 * (IF N >= M THEN N ELSE M)
        /\ M = N => ps = PairsOf(chunkRet.translation, paragraphs)

C6_Witness ==
  /\ pc = "inFile"
  /\ tf.pc = "outer"
  /\ chunkRet.translated
  /\ Len(Paragraphs(tf.chunk)) = 3
  /\ Len(chunkRet.translation) = 3

(* What translateChunk returns for a chunk when the provider answers    *)
(* with one part per paragraph: the pairs of its paragraphs when it     *)
(* holds at least two, and otherwise a single pair with an empty        *)
(* translated element (and an empty original when it holds none).       *)
ExpectedPairs(chunk) ==
  LET paragraphs == Paragraphs(chunk)
  IN  IF Len(paragraphs) >= 2 THEN PairsOf(Faithful(paragraphs), paragraphs)
      ELSE IF Len(paragraphs) = 1
           THEN <<TranslatedElem(EmptyText), ItalicElem(paragraphs[1])>>
           ELSE <<TranslatedElem(EmptyText), ItalicElem(EmptyText)>>

(* C7 as stated: when the paragraphs of a file are split over several   *)
(* chunks and the provider answers part by part, every such chunk got   *)
(* its own translation call and the written text holds, for every       *)
(* paragraph in order, its translation followed by the original.        *)
C7_EachChunkOwnCall ==
  (pc = "inFile" /\ tf.pc = "cooldown" /\ ~unfaithful) =>
    LET withParagraphs == SelectSeq(chunksLog, LAMBDA c : Paragraphs(c) # <<>>)
        paragraphs == Paragraphs(Flatten(chunksLog))
    IN  Len(withParagraphs) >= 2 =>
          /\ Len(textCalls) = Len(withParagraphs)
          /\ PElems(tf.translatedContent) = PairsOf(Faithful(paragraphs), paragraphs)

(* C7 as amended: every chunk with at least two paragraphs gets its own *)
(* translation call, a chunk with fewer gets none; the written text     *)
(* holds, chunk after chunk, the pairs of the chunk's paragraphs in     *)
(* order, the translated element being empty for the paragraph of a     *)
(* one-paragraph chunk, and one empty pair for a chunk without any.     *)
C7_CallPerMultiParagraphChunk ==
  (pc = "inFile" /\ tf.pc = "cooldown" /\ ~unfaithful) =>
    LET translatedChunks == SelectSeq(chunksLog, LAMBDA c : Len(Paragraphs(c)) >= 2)
    IN  /\ textCalls = [k \in 1..Len(translatedChunks) |-> Paragraphs(translatedChunks[k])]
        /\ PElems(tf.translatedContent)
             = Flatten([k \in 1..Len(chunksLog) |-> ExpectedPairs(chunksLog[k])])

(* three paragraphs, split into two chunks between paragraph 2 and 3 *)
C7_Witness ==
  /\ pc = "inFile"
  /\ tf.pc = "cooldown"
  /\ ~unfaithful
  /\ Len(chunksLog) = 2
  /\ Paragraphs(chunksLog[1]) = <<Orig(1), Orig(2)>>
  /\ Paragraphs(chunksLog[2]) = <<Orig(3)>>
  /\ Len(textCalls) = 1
  /\ PElems(tf.translatedContent)
       = << TranslatedElem(Tr(Orig(1))), ItalicElem(Orig(1)),
            TranslatedElem(Tr(Orig(2))), ItalicElem(Orig(2)),
            TranslatedElem(EmptyText), ItalicElem(Orig(3)) >>

(* C8: every file on which translateFile has completed holds the        *)
(* marker, and a translateFile call on a file that holds the marker     *)
(* reports skip and changes nothing: no request, no cache entry, no     *)
(* write, no delay.                                                     *)
C8_SkipIsNoOp ==
  /\ [](\A f \in completed : HasMarker(workDir.files[f]))
  /\ [][ (pc = "loop" /\ fileI < Len(filesToTranslate)
            /\ HasMarker(filesToTranslate[fileI + 1]))
         => /\ lastResult' = "skip"
            /\ workDir' = workDir
            /\ pending' = <<>>
            /\ textCalls' = <<>>
            /\ cacheMap' = cacheMap
            /\ tf' = NoFrame
            /\ pc' = "loop" ]_tvars

(* a second run skips a file the first run translated *)
C8_Witness ==
  /\ runs = 2
  /\ lastResult = "skip"
  /\ fileI \in completed
  /\ ~HasMarker(book[fileI])

(* ================================================================== *)
(* Properties of the playback scheduler                                *)
(* ================================================================== *)
IsPrefix(a, b) == Len(a) <= Len(b) /\ \A k \in 1..Len(a) : a[k] = b[k]

(* the scheduler is Idle: the cursor points at no queue item *)
Idle(s) == s.currentIndex < 0 \/ s.currentIndex >= Len(s.queue)

(* nothing is left to happen on the page without the user *)
Quiescent(s) == s.utterances = <<>> /\ s.stale = <<>> /\ s.timers = <<>>

(* C9: after a start at queue position p with no user action since, the *)
(* items p, p+1, ..., len-1 are handed to the engine once each, in      *)
(* increasing order and one at a time, and once every utterance has     *)
(* ended or errored all of them were spoken and the scheduler is Idle.  *)
C9_AutoAdvance ==
  ph.started =>
    /\ IsPrefix(page.spoken, ph.plan)
    /\ Len(page.utterances) <= 1
    /\ Quiescent(page) => page.spoken = ph.plan /\ Idle(page)

(* C10: the requests to /save-progress and the stored progress change   *)
(* only in two ways: the onend callback of the paragraph idx issues the *)
(* request idx + 1 and leaves the stored progress alone, and the server *)
(* stores the paragraphIndex of a request it was sent; onerror,         *)
(* onstart, Pause, Stop, Click and every other step leave both alone.   *)
C10_ProgressOnlyOnEnd ==
  [][ LET e == ph'.lastEvent
      IN  /\ e.kind = "onend" =>
               /\ page'.saveReqs = page.saveReqs \cup {e.idx + 1}
               /\ page'.progress = page.progress
          /\ e.kind = "saved" =>
               /\ e.idx \in page.saveReqs
               /\ page'.saveReqs = page.saveReqs \ {e.idx}
               /\ page'.progress = e.idx
          /\ e.kind \notin {"onend", "saved"} =>
               /\ page'.saveReqs = page.saveReqs
               /\ page'.progress = page.progress ]_vars

(* the paragraph idx was spoken to its end and idx + 1 is stored *)
C10_Witness ==
  /\ ph.lastEvent.kind = "saved"
  /\ page.progress = ph.lastEvent.idx
  /\ \E k \in 1..Len(page.spoken) : page.spoken[k] + 1 = page.progress

(* C11: Stop leaves the engine empty, the cursor at -1, no paragraph    *)
(* highlighted and no wake lock held; and as long as no user action     *)
(* follows, whatever callback, timer or answer is delivered, nothing is *)
(* handed to the engine, the cursor stays at -1 and no request to       *)
(* /save-progress is issued.                                            *)
C11_StopStaysIdle ==
  /\ [](ph.lastEvent.kind = "stop" =>
          /\ page.utterances = <<>>
          /\ page.currentIndex = -1
          /\ page.playing = {}
          /\ page.wakeLock # "held")
  /\ [][ (ph.user = "stop" /\ ph'.user = "stop" /\ ph'.actions = ph.actions) =>
           /\ page'.utterances = <<>>
           /\ page'.currentIndex = -1
           /\ page'.saveReqs \subseteq page.saveReqs ]_vars

(* C12: every Resume action (Resume button, click on the current        *)
(* paragraph, Space) asks the engine to resume and leaves a check       *)
(* pending that, 180 ms later, restarts from the same paragraph when    *)
(* the engine is still paused or is idle with nothing pending.          *)
C12_ResumeVerified ==
  ph.lastEvent.kind \in {"resume", "clickResume", "spaceResume"} =>
    /\ ~page.paused
    /\ page.timers # <<>>

C14_SameEndOfQueue ==
  (/\ ph.lastEvent.kind \in {"onend", "onerror"}
   /\ page.queue # <<>>
   /\ ph.lastEvent.idx = page.queue[Len(page.queue)].idx
   /\ page.currentIndex = IdleIndex) =>
    /\ Idle(page)
    /\ page.playing = {}
    /\ page.wakeLock # "held"

(* the paragraphs the filter of the page lets through *)
Allowed(s, idx) == s.showLang = "both" \/ s.paragraphData[idx + 1] = s.showLang

(* C15: the queue a play action has built holds exactly the paragraphs  *)
(* the filter allows, in the order of the stream, each with its tag and *)
(* with its index in the unfiltered stream.                             *)
C15_QueueMatchesFilter ==
  ph.lastEvent.kind \in {"play", "click"} =>
    LET q == page.queue
        n == Len(page.paragraphData)
    IN  /\ \A k \in 1..Len(q) :
             /\ q[k].idx \in 0..(n - 1)
             /\ Allowed(page, q[k].idx)
             /\ q[k].lang = page.paragraphData[q[k].idx + 1]
        /\ \A j, k \in 1..Len(q) : j < k => q[j].idx < q[k].idx
        /\ \A idx \in 0..(n - 1) : Allowed(page, idx) => \E k \in 1..Len(q) : q[k].idx = idx

(* [en, fr, en, fr] under the filter fr gives the original indices 1, 3 *)
C15_Witness ==
  /\ ph.lastEvent.kind = "play"
  /\ page.paragraphData = OriginalFirstStream
  /\ page.showLang = "fr"
  /\ [k \in 1..Len(page.queue) |-> page.queue[k].idx] = <<1, 3>>

(* C16: a play action from the paragraph fromIndex leaves the cursor on *)
(* the queue position whose originalIndex is fromIndex and hands that   *)
(* item to the engine; when the queue has no such item the cursor is on *)
(* position 0 and the first queue item is handed over. With an empty    *)
(* queue there is no position 0: the scheduler is Idle. (An engine that *)
(* runs the callbacks inside speak() has moved the cursor on before the *)
(* play action returns.)                                                *)
C16_CursorAtStartIndex ==
  (ph.lastEvent.kind \in {"play", "click"} /\ ~page.syncCallbacks) =>
    LET q == page.queue
        fromIndex == ph.lastEvent.idx
        found == {p \in 1..Len(q) : q[p].idx = fromIndex}
    IN  IF q = <<>>
        THEN page.currentIndex = IdleIndex /\ page.utterances = <<>>
        ELSE IF found = {}
        THEN /\ page.currentIndex = 0
             /\ page.utterances = <<[idx |-> q[1].idx, started |-> FALSE]>>
        ELSE /\ page.currentIndex + 1 \in found
             /\ page.utterances = <<[idx |-> fromIndex, started |-> FALSE]>>

(* Play from paragraph 0, which the filter hides: the cursor is on the *)
(* first queue item, another paragraph                                  *)
C16_Witness ==
  /\ ph.lastEvent = [kind |-> "play", idx |-> 0]
  /\ page.queue # <<>>
  /\ \A p \in 1..Len(page.queue) : page.queue[p].idx # 0
  /\ page.currentIndex = 0
  /\ page.utterances = <<[idx |-> page.queue[1].idx, started |-> FALSE]>>

(* C17: a change of the visibility filter leaves the engine empty and   *)
(* the cursor at -1; as long as no user action follows, whatever        *)
(* callback or timer is delivered, nothing is handed to the engine, in  *)
(* particular no paragraph the new filter hides; and the play action    *)
(* that follows queues paragraphs the new filter shows only.            *)
C17_FilterChangeStops ==
  /\ [](ph.lastEvent.kind = "filter" =>
          /\ page.utterances = <<>>
          /\ page.currentIndex = -1
          /\ page.playing = {})
  /\ [][ (ph.user = "filter" /\ ph'.user = "filter" /\ ph'.actions = ph.actions) =>
           /\ page'.utterances = <<>>
           /\ page'.spoken = page.spoken ]_vars
  /\ [][ (ph.user = "filter" /\ ph'.lastEvent.kind \in {"play", "click"}
            /\ ph'.actions = ph.actions + 1) =>
           \A k \in 1..Len(page'.queue) : ~Hidden(page', page'.queue[k].idx) ]_vars

(* C18: speakNext counts its entries since the last onstart; the entry  *)
(* that brings the count above 100 reports an error and hands nothing   *)
(* to the engine. So the count never exceeds 100, an engine that starts *)
(* no utterance (its error callbacks run inside speak() or later) is    *)
(* handed at most 100 items, and when it has been handed 100 and has    *)
(* reported on them all, either the queue is finished or the error is   *)
(* reported and the cursor rests on an item that was not spoken.        *)
C18_GuardHalts ==
  /\ page.speakNextCallDepth <= MAX_SPEAK_DEPTH
  /\ ~page.canSynthesise =>
       /\ Len(page.spoken) <= MAX_SPEAK_DEPTH
       /\ page.errorReported => Len(page.spoken) = MAX_SPEAK_DEPTH
       /\ (Len(page.spoken) = MAX_SPEAK_DEPTH /\ page.utterances = <<>>) =>
            \/ Idle(page)
            \/ /\ page.errorReported
               /\ page.speakNextCallDepth = 0
               /\ \A k \in 1..Len(page.spoken) :
                    page.spoken[k] # page.queue[page.currentIndex + 1].idx

(* Play on a chapter of 101 paragraphs with an engine whose speak()     *)
(* runs onerror itself: 100 nested entries, the 101st reports and stops *)
C18_Witness ==
  /\ page.syncCallbacks
  /\ ph.lastEvent.kind = "play"
  /\ page.errorReported
  /\ Len(page.spoken) = MAX_SPEAK_DEPTH
  /\ page.currentIndex = MAX_SPEAK_DEPTH
  /\ page.utterances = <<>>

(* C19: at most one translateText call is in flight; it is the call for *)
(* the chunk translateFile built last, made while translateFile waits;  *)
(* the chunks are the lines of the file in order, the calls made are    *)
(* those of the chunks that need one, in the order of the chunks; and   *)
(* translateFile runs on one file at a time, the files in order.        *)
C19_OneCallAtATime ==
  /\ Len(pending) <= 1
  /\ pending # <<>> =>
       /\ pc = "inFile"
       /\ tf.pc = "awaitText"
       /\ chunksLog # <<>>
       /\ Head(pending) = JoinParagraphs(Paragraphs(chunksLog[Len(chunksLog)]))
       /\ textCalls # <<>>
       /\ textCalls[Len(textCalls)] = Head(pending)
  /\ (pc = "inFile" /\ tf.pc \in {"outer", "awaitText", "cooldown"}) =>
       LET called == SelectSeq(chunksLog, LAMBDA c : ~SkipsTranslation(c))
       IN  /\ Flatten(chunksLog) = SubSeq(tf.lines, 1, tf.i)
           /\ textCalls = [k \in 1..Len(called) |-> JoinParagraphs(Paragraphs(called[k]))]
  /\ pc = "inFile" => attempted = 1..(fileI + 1)
  /\ pc = "loop" => attempted = 1..fileI /\ tf = NoFrame

(* the second call of a file is in flight, the first has been answered *)
C19_Witness ==
  /\ Len(pending) = 1
  /\ Len(textCalls) = 2
  /\ Len(tf.translatedContent) > 0

(* C20: the step that writes the translated file starts the delay of    *)
(* 120 s; translateFile returns {translated: true} only in the step in  *)
(* which that delay ends, and between the two nothing else happens: no  *)
(* request is made and no file is started.                              *)
C20_CooldownBeforeReturn ==
  /\ [](tf.pc = "cooldown" =>
          /\ pc = "inFile"
          /\ tf.delay >= 120 * 1000
          /\ pending = <<>>)
  /\ [][ (pc = "inFile" /\ workDir' # workDir) =>
           /\ tf'.pc = "cooldown"
           /\ lastResult' = "running"
           /\ fileI' = fileI ]_vars
  /\ [][ (lastResult = "running" /\ lastResult' = "translated") => tf.pc = "cooldown" ]_vars
  /\ [][ (tf.pc = "cooldown" /\ tf' # tf) =>
           /\ lastResult' = "translated"
           /\ attempted' = attempted
           /\ textCalls' = textCalls
           /\ pending' = <<>> ]_vars

(* the request for a chunk of the second file is in flight after the    *)
(* first file was written and its delay has ended                       *)
C20_Witness ==
  /\ pc = "inFile"
  /\ fileI >= 1
  /\ fileI \in completed
  /\ lastResult = "running"
  /\ pending # <<>>

(* C21: the extraction is entered only by a run that finds no working   *)
(* directory; a run that finds one leaves the directory and its files   *)
(* as they are and goes on to the chapter files present; and a working  *)
(* directory, once there, stays.                                        *)
C21_NoReExtraction ==
  /\ [][ (pc # "extracting" /\ pc' = "extracting") => ~workDir.exists ]_vars
  /\ [][ (workDir.exists /\ runs' = runs + 1) =>
           /\ pc' # "extracting"
           /\ workDir' = workDir
           /\ (workDir.files # <<>> => pc' = "loop") ]_vars
  /\ [][ workDir.exists => workDir'.exists ]_vars

(* a second run goes through the files of the first, one of them      *)
(* translated by it                                                    *)
C21_Witness ==
  /\ runs = 2
  /\ pc = "loop"
  /\ workDir.exists
  /\ \E f \in 1..Len(workDir.files) : HasMarker(workDir.files[f])

(* C22: the cache holds one value per key; an entry, once stored, is    *)
(* never removed or replaced; a translateText call whose key is in the  *)
(* cache returns the stored value, sends nothing to the provider and    *)
(* leaves the cache as it is; the provider is asked only for a key the  *)
(* cache does not hold.                                                 *)
C22_CacheWriteOnce ==
  /\ [](\A e1, e2 \in cacheMap : e1.key = e2.key => e1 = e2)
  /\ [][ cacheMap \subseteq cacheMap' ]_vars
  /\ [][ (Len(pending') > Len(pending)) => Cached(pending'[Len(pending')]) = {} ]_vars
  /\ [][ (pc = "inFile" /\ tf.pc = "built" /\ tf' # tf /\ ~SkipsTranslation(tf.chunk)
            /\ \E e \in cacheMap : e.key = JoinParagraphs(Paragraphs(tf.chunk))) =>
           /\ pending' = pending
           /\ cacheMap' = cacheMap
           /\ chunkRet'.translated
           /\ [key |-> JoinParagraphs(Paragraphs(tf.chunk)),
                value |-> chunkRet'.translation] \in cacheMap ]_vars

(* the second run translates a chunk from the cache the first run filled *)
C22_Witness ==
  /\ runs = 2
  /\ chunkRet.fromCache
  /\ pending = <<>>
  /\ [key |-> textCalls[Len(textCalls)], value |-> chunkRet.translation] \in cacheMap

(* C23: when the translation of a chunk with N paragraphs comes in      *)
(* M # N parts, translateChunk returns, and its output holds max(N, M)  *)
(* pairs: at position i the i-th translated part followed by the i-th   *)
(* original paragraph, an empty element standing for the one missing.   *)
C23_PairsByPosition ==
  (pc = "inFile" /\ tf.pc = "outer" /\ chunkRet.translated
     /\ Len(chunkRet.translation) # Len(Paragraphs(tf.chunk))) =>
    LET paragraphs == Paragraphs(tf.chunk)
        parts == chunkRet.translation
        ps == PElems(chunkRet.out)
        N == Len(paragraphs)
        M == Len(parts)
        positions == IF N >= M THEN N ELSE M
    IN  /\ Len(ps) = 2 * positions
        /\ \A i \in 1..positions :
             /\ ps[2 * i - 1] = TranslatedElem(IF i <= M THEN parts[i] ELSE EmptyText)
             /\ ps[2 * i] = ItalicElem(IF i <= N THEN paragraphs[i] ELSE EmptyText)

(* more parts than paragraphs: the last pair has an empty original *)
C23_Witness ==
  /\ pc = "inFile"
  /\ tf.pc = "outer"
  /\ chunkRet.translated
  /\ Len(chunkRet.translation) > Len(Paragraphs(tf.chunk))
  /\ PElems(chunkRet.out)[2 * Len(chunkRet.translation)] = ItalicElem(EmptyText)

(* C24: the translateChunk call on a chunk with fewer than two          *)
(* paragraphs makes no translateText call and no request and leaves the *)
(* cache alone; what it returns is appended to the file's text, holds   *)
(* the chunk's paragraph, if there is one, as original element and      *)
(* holds no translated text: its translated elements are empty.         *)
C24_FewParagraphsPassThrough ==
  [][ (pc = "inFile" /\ tf.pc = "built" /\ tf' # tf /\ Len(Paragraphs(tf.chunk)) < 2) =>
        LET paragraphs == Paragraphs(tf.chunk)
            ps == PElems(chunkRet'.out)
        IN  /\ pending' = pending
            /\ textCalls' = textCalls
            /\ cacheMap' = cacheMap
            /\ ~chunkRet'.translated
            /\ tf'.pc = "outer"
            /\ tf'.translatedContent = tf.translatedContent \o chunkRet'.out
            /\ \A k \in 1..Len(paragraphs) :
                 \E j \in 1..Len(ps) : ps[j] = ItalicElem(paragraphs[k])
            /\ \A j \in 1..Len(ps) :
                 ps[j].cls = "translated" => ps[j] = TranslatedElem(EmptyText) ]_vars

(* a chunk with one paragraph has been passed through *)
C24_Witness ==
  /\ pc = "inFile"
  /\ tf.pc = "outer"
  /\ Len(Paragraphs(tf.chunk)) = 1
  /\ ~chunkRet.translated
  /\ textCalls = <<>>
  /\ PElems(chunkRet.out) = <<TranslatedElem(EmptyText), ItalicElem(Paragraphs(tf.chunk)[1])>>

(* C25: while translateFile works on an empty chapter file no chunk is  *)
(* handed to translateChunk and no translateText call or request is     *)
(* made.                                                                *)
C25_EmptyInputNoChunks ==
  (pc = "inFile" /\ tf.lines = EmptyFile) =>
    /\ chunksLog = <<>>
    /\ textCalls = <<>>
    /\ pending = <<>>

(* C26: the step in which translateFile throws writes nothing, leaves   *)
(* the loop over the files with the error recorded, and leaves on disk  *)
(* the content translateFile read, which holds no marker; the file of a *)
(* run that failed stays as extracted and without marker; and a         *)
(* translateFile call on a file without marker does not skip it.        *)
C26_FailedFileUntouched ==
  /\ [][ (lastResult = "running" /\ lastResult' = "threw") =>
           /\ workDir' = workDir
           /\ workDir'.files[failedFile'] = tf.lines
           /\ ~HasMarker(workDir'.files[failedFile'])
           /\ failedFile' = fileI + 1
           /\ erroredOut' # <<>>
           /\ pc' # "loop" ]_vars
  /\ [](failedFile # 0 =>
          /\ workDir.files[failedFile] = workDir.from[failedFile]
          /\ ~HasMarker(workDir.files[failedFile]))
  /\ [][ (pc = "loop" /\ fileI < Len(filesToTranslate) /\ fileI' = fileI /\ pc' # pc
            /\ ~HasMarker(filesToTranslate[fileI + 1])) =>
           /\ lastResult' = "running"
           /\ tf'.lines = filesToTranslate[fileI + 1] ]_vars

(* the second run skips file 1, translated by the first, and works on   *)
(* file 2, on which the first run failed                                *)
C26_Witness ==
  /\ runs = 2
  /\ pc = "inFile"
  /\ fileI = 1
  /\ 1 \in completed
  /\ lastResult = "running"
  /\ tf.lines = book[2]
  /\ workDir.files[2] = book[2]

(* C27: the error translateEPUB raises after repackaging names the      *)
(* chapter file whose translation failed.                               *)
C27_ErrorNamesFile ==
  (pc = "done" /\ raised = "translation" /\ repackaged) =>
    \E k \in 1..Len(RaisedMessage(erroredOut)) :
      RaisedMessage(erroredOut)[k] = FileRef(failedFile)

(* C28: whenever the scheduler is idle -- after Stop, after a filter    *)
(* change, after the callback of the last queue item found nothing left *)
(* to speak -- the cursor currentIndex is -1 or at least the length of  *)
(* the queue, whatever the length of the queue.                         *)
C28_IdleCursor ==
  (\/ ph.lastEvent.kind \in {"stop", "filter"}
   \/ /\ ph.lastEvent.kind \in {"onend", "onerror"}
      /\ page.queue # <<>>
      /\ ph.lastEvent.idx = page.queue[Len(page.queue)].idx
      /\ Quiescent(page)
      /\ ~page.errorReported) =>
    (page.currentIndex = -1 \/ page.currentIndex >= Len(page.queue))

(* C29: at every moment of a page session, a paragraph carrying the     *)
(* playing highlight is a target-language (translated) paragraph.      *)
C29_HighlightIsTranslated ==
  \A idx \in page.playing : page.paragraphData[idx + 1] = "fr"

(* the step is a click on paragraph k *)
ClickOn(k) ==
  /\ ph'.actions = ph.actions + 1
  /\ ph'.lastEvent.kind \in {"click", "clickPause", "clickResume"}
  /\ ph'.lastEvent.idx = k

(* the paragraph k is the one being spoken (or held by a pause) *)
IsSpeaking(s, k) == Speaking(s) /\ s.utterances[1].idx = k

(* the engine holds no utterance of the paragraph k *)
NotInEngine(s, k) == \A j \in 1..Len(s.utterances) : s.utterances[j].idx # k

(* a click on the paragraph being spoken toggles pause and resume *)
ClickCurrentToggles ==
  \A k \in 0..IdleIndex :
    (ClickOn(k) /\ IsSpeaking(page, k)) =>
      /\ page'.currentIndex = page.currentIndex
      /\ page'.queue = page.queue
      /\ page'.utterances = page.utterances
      /\ IF page.paused \/ page.userPaused
         THEN ~page'.paused /\ ~page'.userPaused
         ELSE page'.paused /\ page'.userPaused

(* a click on a paragraph the engine has nothing of restarts from it *)
ClickOtherRestarts ==
  \A k \in 0..IdleIndex :
    (ClickOn(k) /\ NotInEngine(page, k)) =>
      /\ \A j \in 1..Len(page.utterances) :
           \E i \in 1..Len(page'.stale) : page'.stale[i] = page.utterances[j]
      /\ page'.spoken # <<>>
      /\ page'.spoken[1] = k

(* C30: a click on the paragraph that is being spoken toggles between   *)
(* pause and resume and leaves the cursor and the engine's utterance    *)
(* alone; a click on any other paragraph cancels the current utterance  *)
(* and restarts playback from the clicked paragraph.                    *)
C30_ClickToggles == [][ClickCurrentToggles /\ ClickOtherRestarts]_vars

(* the step is the callback of a resumeOrRestart timer *)
TimerStep == page.timers # <<>> /\ ph'.lastEvent.kind = "timer" /\ page'.timers = Tail(page.timers)

(* C31: the timer of resumeOrRestart does not restart playback when,    *)
(* since the resume, the user pressed Stop or changed the filter, or    *)
(* the last queue item ended: its callback then hands nothing to the    *)
(* engine and leaves the cursor alone.                                  *)
C31_TimerOnlyAfterFailedResume ==
  [][(/\ TimerStep
      /\ \/ ph.user \in {"stop", "filter"}
         \/ ph.lastEvent.kind = "onend" /\ page.currentIndex = IdleIndex) =>
       /\ page'.spoken = page.spoken
       /\ page'.utterances = page.utterances
       /\ page'.currentIndex = page.currentIndex]_vars

(* every sentinel acquired is the one the variable wakeLock refers to *)
SentinelsTracked == ~page.untracked

(* no sentinel is held once Stop or the end of the queue was processed  *)
(* and the requests in flight have resolved                             *)
ReleasedWhenStopped ==
  (/\ page.lockReqs = 0
   /\ Quiescent(page)
   /\ Idle(page)
   /\ ph.user = "stop" \/ page.currentIndex = IdleIndex) =>
    page.wakeLock # "held"

(* C32: no wake lock is leaked: every sentinel acquired is tracked by   *)
(* the variable wakeLock, so that at most one is held, and none is held *)
(* once Stop or the end of the queue has been processed and the pending *)
(* requests have resolved.                                              *)
C32_NoWakeLockLeak == SentinelsTracked /\ ReleasedWhenStopped

(* the flag userPaused is set only while the engine holds a paused      *)
(* utterance                                                            *)
PausedFlagMeansPaused == page.userPaused => (page.paused /\ page.utterances # <<>>)

(* the step is a press of Space *)
SpaceStep ==
  ph'.actions = ph.actions + 1 /\ ph'.lastEvent.kind \in {"space", "spacePause", "spaceResume"}

(* Space pressed while the scheduler is idle changes nothing *)
SpaceIdleDoesNothing == (SpaceStep /\ Idle(page)) => page' = page

(* C33: the user-pause flag is true only while a paused utterance       *)
(* exists, and Space pressed while the scheduler is idle does nothing:  *)
(* it starts no playback, arms no timer and requests no wake lock.      *)
C33_SpaceIdleNoOp == []PausedFlagMeansPaused /\ [][SpaceIdleDoesNothing]_vars

(* C34: the chapters a run of translateEPUB translates and packages     *)
(* come from the book passed to that run: the working directory it      *)
(* works on was extracted from that book.                               *)
C34_ChaptersFromOwnBook ==
  (pc \notin {"notStarted", "extracting", "done"} \/ (pc = "done" /\ repackaged)) =>
    workDir.from = book

(* the working directory holds every file of the book it was extracted  *)
(* from                                                                 *)
CompletelyExtracted(dir) == dir.from # <<>> /\ Len(dir.files) = Len(dir.from)

(* C35: a working directory that exists when a run starts holds a       *)
(* completely extracted book; a failed extraction leaves no working     *)
(* directory behind.                                                    *)
C35_WorkDirComplete ==
  /\ [][ (runs' = runs + 1 /\ workDir.exists) => CompletelyExtracted(workDir) ]_vars
  /\ []((pc = "done" /\ raised = "extract") => ~workDir.exists)

(* the first position of filtered at which an italic paragraph follows  *)
(* an italic one; one past the end when there is none                   *)
FirstItalicPair(filtered) ==
  LET pairs == {k \in 2..Len(filtered) : filtered[k - 1].isItalic /\ filtered[k].isItalic}
  IN  IF pairs = {} THEN Len(filtered) + 1 ELSE CHOOSE k \in pairs : \A j \in pairs : k <= j

IsPermutation(a, b) ==
  /\ Len(a) = Len(b)
  /\ \E f \in [1..Len(a) -> 1..Len(a)] :
       /\ \A x, y \in 1..Len(a) : f[x] = f[y] => x = y
       /\ \A x \in 1..Len(a) : a[x] = b[f[x]]

(* the written paragraphs are those of the input without the empty      *)
(* italic ones                                                          *)
FixPermutes == fix.pc = "done" => IsPermutation(fix.written, fix.filtered)

(* from the first pair of consecutive italic paragraphs on, the         *)
(* paragraphs are written in the order of the input                     *)
FixStopsAtPair ==
  fix.pc = "done" =>
    LET s == FirstItalicPair(fix.filtered)
        n == Len(fix.filtered)
    IN  /\ Len(fix.written) = n
        /\ SubSeq(fix.written, s, n) = SubSeq(fix.filtered, s, n)

(* C36: fixParagraphOrder moves italic paragraphs before their          *)
(* predecessor only up to the first place where two italic paragraphs   *)
(* are consecutive; every paragraph from that place on keeps its input  *)
(* order, and the output is a permutation of the input paragraphs minus *)
(* the empty italic ones.                                               *)
C36_SwapsStopAtItalicPair == FixPermutes /\ FixStopsAtPair

====
